---- MODULE Spec2Model ----
(***************************************************************************)
(* Model of tools/profiler.py: the ETISS benchmark sweep engine.            *)
(*                                                                         *)
(* Python strings are sequences of one-character strings, so that prefix   *)
(* tests, replacement, joining and pattern search are computed as the      *)
(* code computes them.  An Optional[T] is a sequence of at most one T:     *)
(* None is the empty one, Some(x) holds x.                                 *)
(***************************************************************************)
EXTENDS Integers, Sequences, FiniteSets, TLC

VARIABLES
    runner,     \* the BenchmarkRunner object (self): profile, etiss_variant, etiss_variant_name
    given,      \* the etiss_variant argument the runner was constructed with
    clock,      \* datetime.now(), in seconds since midnight
    issued,     \* the calls of generate_stats_filename so far: configuration, second, name
    call,       \* the last call of run_benchmark: its configuration and what the run left behind
    ret,        \* None before the call returns, then Some([raised, result]): the exception
                \* that left it ("" for none) and the Optional BenchmarkResult returned
    pc,         \* run_experiment: "idle", "build", "sweep", "returned" or "raised"
    args,       \* run_experiment: its arguments
    next_build, \* run_experiment: the index of the next program of the rebuild loop
    pos,        \* run_experiment: the position of the loop nest
    events,     \* run_experiment: the collaborators invoked so far, in order
    results,    \* run_experiment: the list results
    log,        \* run_experiment: the failures printed by the except clause
    exc,        \* run_experiment: the exception that left it ("" for none)
    saving,     \* the artifact write: "idle", "called", "built", "open", "saved" or "raised"
    sargs,      \* the artifact write: the metadata form and lists, and the results
    artifact,   \* the artifact write: data, as the chunks json.dump writes
    written,    \* the artifact write: the number of chunks json.dump has written
    buffer,     \* the artifact write: the chunks in the buffer of the file object
    dest,       \* the destination file: None while it does not exist, else its content
    before      \* the destination file as it was when the write was called

vars == <<runner, given, clock, issued, call, ret,
          pc, args, next_build, pos, events, results, log, exc,
          saving, sargs, artifact, written, buffer, dest, before>>

None == <<>>
Some(x) == <<x>>
value(o) == o[1]

(***************************************************************************)
(* Bounds of the model.                                                    *)
(***************************************************************************)
MaxPieces == 3      \* a variant name is built of at most this many pieces
MaxResults == 2     \* a saved list holds at most this many records
MaxClock == 2       \* the clock advances at most this many seconds
MaxIssued == 2      \* at most this many file names are generated
MaxLines == 2       \* the standard output of a run has at most this many lines
MaxCombos == 4      \* a sweep has at most this many combinations

(***************************************************************************)
(* String helpers (str.startswith, str.replace, str.join).                 *)
(***************************************************************************)
startswith(s, p) ==
    /\ Len(s) >= Len(p)
    /\ SubSeq(s, 1, Len(p)) = p

\* str.replace(old, new): every non-overlapping occurrence, leftmost first.
RECURSIVE replace(_, _, _)
replace(s, old, new) ==
    IF Len(s) = 0 \/ Len(old) = 0 THEN s
    ELSE IF startswith(s, old)
         THEN new \o replace(SubSeq(s, Len(old) + 1, Len(s)), old, new)
         ELSE <<Head(s)>> \o replace(Tail(s), old, new)

RECURSIVE join(_, _)
join(sep, parts) ==
    IF Len(parts) = 0 THEN <<>>
    ELSE IF Len(parts) = 1 THEN parts[1]
    ELSE parts[1] \o sep \o join(sep, Tail(parts))

(***************************************************************************)
(* BenchmarkRunner.__init__: variant normalization.                        *)
(***************************************************************************)
ETISS_PREFIX == <<"e","t","i","s","s","_">>
DEFAULT == <<"d","e","f","a","u","l","t">>

\* self.etiss_variant
canonical_variant(etiss_variant) ==
    IF ~startswith(etiss_variant, ETISS_PREFIX)
    THEN ETISS_PREFIX \o etiss_variant
    ELSE etiss_variant

\* self.etiss_variant_name
display_variant(etiss_variant) ==
    IF ~startswith(etiss_variant, ETISS_PREFIX)
    THEN etiss_variant
    ELSE replace(etiss_variant, ETISS_PREFIX, <<>>)

RESULTS_JIT_STATS == <<"r","e","s","u","l","t","s","/","j","i","t","_","s","t","a","t","s">>

\* self.jit_stats_dir
jit_stats_dir(experiment_name) ==
    IF experiment_name # None /\ value(experiment_name) # <<>>
    THEN RESULTS_JIT_STATS \o <<"/">> \o value(experiment_name)
    ELSE RESULTS_JIT_STATS

BenchmarkRunner(profile, etiss_variant, experiment_name) ==
    [ profile            |-> profile,
      etiss_variant      |-> canonical_variant(etiss_variant),
      etiss_variant_name |-> display_variant(etiss_variant),
      jit_stats_dir      |-> jit_stats_dir(experiment_name) ]

(***************************************************************************)
(* BenchmarkRunner.generate_stats_filename.                                *)
(***************************************************************************)
Digits == <<"0","1","2","3","4","5","6","7","8","9">>

\* str(n) of a non-negative integer
RECURSIVE str_nat(_)
str_nat(n) ==
    IF n < 10 THEN <<Digits[n + 1]>>
    ELSE str_nat(n \div 10) \o <<Digits[(n % 10) + 1]>>

\* str(n) of an integer
str_int(n) == IF n < 0 THEN <<"-">> \o str_nat(-n) ELSE str_nat(n)

TwoDigits(n) == <<Digits[(n \div 10) + 1], Digits[(n % 10) + 1]>>

\* The day the clock counts the seconds of, as %Y%m%d.
TODAY == <<"2","0","2","5","0","1","0","1">>

\* datetime.now().strftime("%Y%m%d_%H%M%S"), t the seconds since midnight
strftime(t) ==
    TODAY \o <<"_">> \o TwoDigits((t \div 3600) % 24)
          \o TwoDigits((t \div 60) % 60) \o TwoDigits(t % 60)

\* Python truthiness of an Optional[str]: None and "" are false.
truthy(x) == x # None /\ value(x) # <<>>

generate_stats_filename(self, program, jit, fast_jit, optimization_threads, block_size, now) ==
    LET parts ==
            << program,
               <<"p","r","o","f","i","l","e","-">> \o self.profile,
               <<"v","a","r","i","a","n","t","-">> \o self.etiss_variant_name,
               <<"j","i","t","-">> \o jit >>
        fast ==
            IF truthy(fast_jit)
            THEN << <<"f","a","s","t","-">> \o value(fast_jit) >> \o
                 (IF optimization_threads # None
                  THEN << <<"t","h","r","e","a","d","s","-">> \o str_int(value(optimization_threads)) >>
                  ELSE <<>>)
            ELSE <<>>
        block == << <<"b","l","o","c","k","-">> \o str_int(block_size) >>
        timestamp == << strftime(now) >>
    IN  join(<<"_">>, parts \o fast \o block \o timestamp) \o <<".","j","s","o","n">>

(***************************************************************************)
(* Numbers.  A Python number is [ty, m, d]: the int or float m / 10^d,     *)
(* with no trailing zero among the d decimals, so that equal numbers of    *)
(* one type are equal records.                                             *)
(***************************************************************************)
RECURSIVE pow10(_)
pow10(n) == IF n = 0 THEN 1 ELSE 10 * pow10(n - 1)

RECURSIVE strip_zeros(_, _)
strip_zeros(m, d) ==
    IF d > 0 /\ m % 10 = 0 THEN strip_zeros(m \div 10, d - 1)
    ELSE [m |-> m, d |-> d]

PyInt(k) == [ty |-> "int", m |-> k, d |-> 0]

PyFloat(m, d) ==
    LET n == strip_zeros(m, d) IN [ty |-> "float", m |-> n.m, d |-> n.d]

\* int(x): truncation toward zero
int(x) ==
    PyInt(IF x.m >= 0 THEN x.m \div pow10(x.d) ELSE -((-x.m) \div pow10(x.d)))

IsNumber(x) ==
    /\ DOMAIN x = {"ty", "m", "d"}
    /\ x.ty \in {"int", "float"}
    /\ x.m \in Int
    /\ x.d \in Nat
    /\ (x.ty = "int" => x.d = 0)

IsZero(x) == x.m = 0

(***************************************************************************)
(* float(text), for the texts the pattern [\d.e+-]+ can capture:           *)
(*   [sign] (digits [. [digits]] | . digits) [e [sign] digits]             *)
(* anything else raises ValueError.                                        *)
(***************************************************************************)
IsDigit(c) == c \in { Digits[i] : i \in 1..10 }

DigitValue(c) == (CHOOSE i \in 1..10 : Digits[i] = c) - 1

\* the first index at or after i that holds no digit
RECURSIVE skip_digits(_, _)
skip_digits(s, i) ==
    IF i <= Len(s) /\ IsDigit(s[i]) THEN skip_digits(s, i + 1) ELSE i

\* the number the digits of s spell
RECURSIVE digits_value(_)
digits_value(s) ==
    IF Len(s) = 0 THEN 0
    ELSE 10 * digits_value(SubSeq(s, 1, Len(s) - 1)) + DigitValue(s[Len(s)])

\* the float of sign, digits and decimal shift: mant / 10^shift
float_scaled(neg, mant, shift) ==
    IF shift < 0
    THEN PyFloat((IF neg THEN -1 ELSE 1) * mant * pow10(-shift), 0)
    ELSE PyFloat((IF neg THEN -1 ELSE 1) * mant, shift)

\* The text is split: the whole digits are s[i0..i1-1], the fraction digits
\* s[i1+1..i2-1] (none if i2 = i1), the exponent digits s[j1..j2-1] if exp.
float_parts(s, i0, i1, i2, exp, j1, j2) ==
    IF /\ (i1 - i0) + (IF i2 > i1 THEN i2 - i1 - 1 ELSE 0) >= 1
       /\ exp => j2 > j1
       /\ (IF exp THEN j2 ELSE i2) = Len(s) + 1
    THEN [ raised |-> "",
           v |-> float_scaled(s[1] = "-",
                     digits_value(SubSeq(s, i0, i1 - 1) \o SubSeq(s, i1 + 1, i2 - 1)),
                     (IF i2 > i1 THEN i2 - i1 - 1 ELSE 0)
                       + (IF ~exp THEN 0
                          ELSE IF s[i2 + 1] = "-" THEN digits_value(SubSeq(s, j1, j2 - 1))
                          ELSE -digits_value(SubSeq(s, j1, j2 - 1)))) ]
    ELSE [raised |-> "ValueError", v |-> PyFloat(0, 0)]

float_exponent(s, i0, i1, i2, j1) ==
    float_parts(s, i0, i1, i2, TRUE, j1, skip_digits(s, j1))

float_fraction(s, i0, i1, i2) ==
    IF i2 <= Len(s) /\ s[i2] = "e"
    THEN float_exponent(s, i0, i1, i2,
             IF i2 + 1 <= Len(s) /\ s[i2 + 1] \in {"+", "-"} THEN i2 + 2 ELSE i2 + 1)
    ELSE float_parts(s, i0, i1, i2, FALSE, i2, i2)

float_whole(s, i0, i1) ==
    float_fraction(s, i0, i1,
        IF i1 <= Len(s) /\ s[i1] = "." THEN skip_digits(s, i1 + 1) ELSE i1)

float_sign(s, i0) == float_whole(s, i0, skip_digits(s, i0))

float(s) == float_sign(s, IF Len(s) >= 1 /\ s[1] \in {"+", "-"} THEN 2 ELSE 1)

(***************************************************************************)
(* re.search(label ([\d.e+-]+) suffix, text): the leftmost place where the *)
(* label is followed by a non-empty run of the class and then the suffix.  *)
(* No character of a suffix used here is in the class, so the greedy run   *)
(* is the maximal one.  Gives None, or Some(the captured group).           *)
(***************************************************************************)
NumberClass == { Digits[i] : i \in 1..10 } \cup {".", "e", "+", "-"}

RECURSIVE skip_class(_, _)
skip_class(s, i) ==
    IF i <= Len(s) /\ s[i] \in NumberClass THEN skip_class(s, i + 1) ELSE i

\* the label at i, the run of the class from j up to k, then the suffix
match_run(text, i, j, k, label, suffix) ==
    IF /\ k - 1 + Len(suffix) <= Len(text)
       /\ SubSeq(text, i, j - 1) = label
       /\ k > j
       /\ SubSeq(text, k, k - 1 + Len(suffix)) = suffix
    THEN Some(SubSeq(text, j, k - 1))
    ELSE None

match_at(text, i, label, suffix) ==
    match_run(text, i, i + Len(label), skip_class(text, i + Len(label)), label, suffix)

RECURSIVE search_from(_, _, _, _)
first_match(found, text, i, label, suffix) ==
    IF found # None THEN found ELSE search_from(text, i + 1, label, suffix)

search_from(text, i, label, suffix) ==
    IF i > Len(text) THEN None
    ELSE first_match(match_at(text, i, label, suffix), text, i, label, suffix)

re_search(label, suffix, text) == search_from(text, 1, label, suffix)

\* float(match.group(1)) if match else 0.0
float_if(match) ==
    IF match # None THEN float(value(match)) ELSE [raised |-> "", v |-> PyFloat(0, 0)]

\* BenchmarkRunner._extract_float
extract_float(text, label, suffix) == float_if(re_search(label, suffix, text))

\* int(float(match.group(1))) if match else 0
int_if(f) == [raised |-> f.raised, v |-> int(f.v)]

\* BenchmarkRunner._extract_int
extract_int(text, label, suffix) == int_if(extract_float(text, label, suffix))

MIPS_ESTIMATED == <<"M","I","P","S"," ","(","e","s","t","i","m","a","t","e","d",")",":"," ">>
MIPS_CORRECTED == <<"M","I","P","S"," ","(","c","o","r","r","e","c","t","e","d",")",":"," ">>
SIMULATION_TIME == <<"S","i","m","u","l","a","t","i","o","n"," ","T","i","m","e",":"," ">>
WALLCLOCK_TIME == <<"W","a","l","l","c","l","o","c","k"," ","T","i","m","e",":"," ">>
CPU_CYCLES == <<"C","P","U"," ","C","y","c","l","e","s"," ","(","e","s","t","i","m","a","t","e","d",")",":"," ">>

(***************************************************************************)
(* The structured stats file.  A parsed file maps each section name to an  *)
(* Optional mapping, and that mapping each of its metric names to an       *)
(* Optional number: None is an absent section or key.                      *)
(***************************************************************************)
Sections == {"metadata", "performance", "compilation", "execution", "optimization", "cache"}

SectionKeyList(section) ==
    CASE section = "metadata" -> <<"timestamp">>
      [] section = "performance" ->
            <<"mips_estimated", "mips_corrected", "simulation_time_s", "wall_time_s",
              "cpu_cycles", "cpu_time_s">>
      [] section = "compilation" ->
            <<"unique_blocks", "fast_jit_blocks", "optimizing_jit_blocks", "total_time_s",
              "fast_jit_time_s", "optimizing_jit_time_s", "avg_fast_jit_time_ms",
              "avg_optimizing_jit_time_ms", "fast_jit_speedup", "compilation_percentage",
              "execution_percentage">>
      [] section = "execution" ->
            <<"total_block_executions", "fast_jit_executions", "optimized_executions",
              "fast_jit_exec_percentage", "optimized_exec_percentage",
              "block_execution_time_ms">>
      [] section = "optimization" ->
            <<"blocks_optimized", "blocks_switched", "optimization_success_rate",
              "switch_rate", "avg_executions_before_switch">>
      [] section = "cache" ->
            <<"total_lookups", "sequential_hits", "branch_hits", "misses", "hit_rate",
              "miss_rate">>

SectionKeys(section) ==
    { SectionKeyList(section)[i] : i \in 1..Len(SectionKeyList(section)) }

\* Python None where a number is expected.
PyNone == [ty |-> "NoneType", m |-> 0, d |-> 0]

\* dict.get(key) with the default forgotten: an absent key reads as None.
get_no_default(section, key, default) ==
    IF section = None THEN default
    ELSE IF value(section)[key] = None THEN PyNone
    ELSE value(value(section)[key])

\* dict.get(key, default) on a section; an absent section reads as {}
get(section, key, default) ==
    IF section = None THEN default
    ELSE IF value(section)[key] = None THEN default
    ELSE value(value(section)[key])

(***************************************************************************)
(* BenchmarkRunner._run_benchmark_regular.  proc is what the run           *)
(* collaborator left behind: its exit status, its standard output, and the *)
(* file at the generated output path once it has ended:                    *)
(*   stats = [exists, valid, data].                                        *)
(* The outcome is [raised, result]: the exception that leaves the call     *)
(* ("" for none) and the Optional BenchmarkResult it returns.              *)
(***************************************************************************)
Zero == PyInt(0)
ZeroF == PyFloat(0, 0)

json_path(self, program, jit, fast_jit, optimization_threads, block_size, now) ==
    [ py |-> "Path",
      at |-> self.jit_stats_dir \o <<"/">> \o
             generate_stats_filename(self, program, jit, fast_jit,
                                     optimization_threads, block_size, now) ]

structured_result(self, program, jit, fast_jit, block_size, optimization_threads, path, data) ==
    LET perf       == data["performance"]
        comp       == data["compilation"]
        exec_stats == data["execution"]
        opt        == data["optimization"]
        cache      == data["cache"]
    IN  [ program |-> program,
          profile |-> self.profile,
          etiss_variant |-> self.etiss_variant,
          jit |-> jit,
          fast_jit |-> fast_jit,
          block_size |-> block_size,
          optimization_threads |-> optimization_threads,
          mips_estimated |-> get(perf, "mips_estimated", ZeroF),
          mips_corrected |-> get(perf, "mips_corrected", ZeroF),
          sim_time |-> get(perf, "simulation_time_s", ZeroF),
          wall_time |-> get(perf, "wall_time_s", ZeroF),
          cpu_cycles |-> int(get(perf, "cpu_cycles", Zero)),
          cpu_time_simulated |-> get(perf, "cpu_time_s", ZeroF),
          unique_blocks_compiled |-> get(comp, "unique_blocks", Zero),
          fast_jit_blocks |-> get(comp, "fast_jit_blocks", Zero),
          optimizing_jit_blocks |-> get(comp, "optimizing_jit_blocks", Zero),
          total_compilation_time_s |-> get(comp, "total_time_s", ZeroF),
          fast_jit_compilation_time_s |-> get(comp, "fast_jit_time_s", ZeroF),
          optimizing_jit_compilation_time_s |-> get(comp, "optimizing_jit_time_s", ZeroF),
          avg_fast_jit_time_ms |-> get(comp, "avg_fast_jit_time_ms", ZeroF),
          avg_opt_jit_time_ms |-> get(comp, "avg_optimizing_jit_time_ms", ZeroF),
          fast_jit_speedup |-> get(comp, "fast_jit_speedup", ZeroF),
          compilation_percentage |-> get(comp, "compilation_percentage", ZeroF),
          execution_percentage |-> get(comp, "execution_percentage", ZeroF),
          total_block_executions |-> get(exec_stats, "total_block_executions", Zero),
          fast_jit_executions |-> get(exec_stats, "fast_jit_executions", Zero),
          optimized_executions |-> get(exec_stats, "optimized_executions", Zero),
          fast_jit_exec_percentage |-> get(exec_stats, "fast_jit_exec_percentage", ZeroF),
          optimized_exec_percentage |-> get(exec_stats, "optimized_exec_percentage", ZeroF),
          block_execution_time_ms |-> get(exec_stats, "block_execution_time_ms", ZeroF),
          blocks_optimized |-> get(opt, "blocks_optimized", Zero),
          blocks_switched |-> get(opt, "blocks_switched", Zero),
          optimization_success_rate |-> get(opt, "optimization_success_rate", ZeroF),
          switch_rate |-> get(opt, "switch_rate", ZeroF),
          avg_executions_before_switch |-> get(opt, "avg_executions_before_switch", Zero),
          total_cache_lookups |-> get(cache, "total_lookups", Zero),
          cache_sequential_hits |-> get(cache, "sequential_hits", Zero),
          cache_branch_hits |-> get(cache, "branch_hits", Zero),
          cache_misses |-> get(cache, "misses", Zero),
          cache_hit_rate |-> get(cache, "hit_rate", ZeroF),
          cache_miss_rate |-> get(cache, "miss_rate", ZeroF),
          profiling_report_path |-> None,
          stats_json_path |-> Some(path),
          category_breakdown |-> None ]

\* The dataclass defaults of the metric fields the fallback path does not set.
fallback_result(self, program, jit, fast_jit, block_size, optimization_threads, mips_estimated, mips_corrected, sim_time, wall_time, cycles) ==
    [ program |-> program,
      profile |-> self.profile,
      etiss_variant |-> self.etiss_variant,
      jit |-> jit,
      fast_jit |-> fast_jit,
      block_size |-> block_size,
      optimization_threads |-> optimization_threads,
      mips_estimated |-> mips_estimated,
      mips_corrected |-> mips_corrected,
      sim_time |-> sim_time,
      wall_time |-> wall_time,
      cpu_cycles |-> cycles,
      cpu_time_simulated |-> ZeroF,
      unique_blocks_compiled |-> Zero,
      fast_jit_blocks |-> Zero,
      optimizing_jit_blocks |-> Zero,
      total_compilation_time_s |-> ZeroF,
      fast_jit_compilation_time_s |-> ZeroF,
      optimizing_jit_compilation_time_s |-> ZeroF,
      avg_fast_jit_time_ms |-> ZeroF,
      avg_opt_jit_time_ms |-> ZeroF,
      fast_jit_speedup |-> ZeroF,
      compilation_percentage |-> ZeroF,
      execution_percentage |-> ZeroF,
      total_block_executions |-> Zero,
      fast_jit_executions |-> Zero,
      optimized_executions |-> Zero,
      fast_jit_exec_percentage |-> ZeroF,
      optimized_exec_percentage |-> ZeroF,
      block_execution_time_ms |-> ZeroF,
      blocks_optimized |-> Zero,
      blocks_switched |-> Zero,
      optimization_success_rate |-> ZeroF,
      switch_rate |-> ZeroF,
      avg_executions_before_switch |-> Zero,
      total_cache_lookups |-> Zero,
      cache_sequential_hits |-> Zero,
      cache_branch_hits |-> Zero,
      cache_misses |-> Zero,
      cache_hit_rate |-> ZeroF,
      cache_miss_rate |-> ZeroF,
      profiling_report_path |-> None,
      stats_json_path |-> None,
      category_breakdown |-> None ]

\* The fallback branch once the five patterns are extracted: the first
\* float(...) that raises leaves the call, else the result is built.
fallback(self, program, jit, fast_jit, block_size, optimization_threads, mips_estimated, mips_corrected, sim_time, wall_time, cycles) ==
    IF \E x \in {mips_estimated, mips_corrected, sim_time, wall_time, cycles} : x.raised # ""
    THEN [raised |-> "ValueError", result |-> None]
    ELSE [raised |-> "",
          result |-> Some(fallback_result(self, program, jit, fast_jit, block_size,
                              optimization_threads, mips_estimated.v, mips_corrected.v,
                              sim_time.v, wall_time.v, cycles.v))]

\* An extraction that reads the standard output first and the stats file
\* only when the output is empty.
run_benchmark_text_first(self, program, jit, fast_jit, block_size, optimization_threads, now, proc) ==
    IF proc.returncode # 0
    THEN [raised |-> "CalledProcessError", result |-> None]
    ELSE IF proc.stats.exists /\ proc.stdout = <<>>
    THEN IF ~proc.stats.valid
         THEN [raised |-> "JSONDecodeError", result |-> None]
         ELSE [raised |-> "",
               result |-> Some(structured_result(self, program, jit, fast_jit, block_size,
                                   optimization_threads,
                                   json_path(self, program, jit, fast_jit,
                                             optimization_threads, block_size, now),
                                   proc.stats.data))]
    ELSE fallback(self, program, jit, fast_jit, block_size, optimization_threads,
                  extract_float(proc.stdout, MIPS_ESTIMATED, <<>>),
                  extract_float(proc.stdout, MIPS_CORRECTED, <<>>),
                  extract_float(proc.stdout, SIMULATION_TIME, <<"s">>),
                  extract_float(proc.stdout, WALLCLOCK_TIME, <<"s">>),
                  extract_int(proc.stdout, CPU_CYCLES, <<>>))

run_benchmark_regular(self, program, jit, fast_jit, block_size, optimization_threads, now, proc) ==
    IF proc.returncode # 0
    THEN [raised |-> "CalledProcessError", result |-> None]       \* check=True
    ELSE IF proc.stats.exists
    THEN IF ~proc.stats.valid
         THEN [raised |-> "JSONDecodeError", result |-> None]     \* json.load
         ELSE [raised |-> "",
               result |-> Some(structured_result(self, program, jit, fast_jit, block_size,
                                   optimization_threads,
                                   json_path(self, program, jit, fast_jit,
                                             optimization_threads, block_size, now),
                                   proc.stats.data))]
    ELSE fallback(self, program, jit, fast_jit, block_size, optimization_threads,
                  extract_float(proc.stdout, MIPS_ESTIMATED, <<>>),
                  extract_float(proc.stdout, MIPS_CORRECTED, <<>>),
                  extract_float(proc.stdout, SIMULATION_TIME, <<"s">>),
                  extract_float(proc.stdout, WALLCLOCK_TIME, <<"s">>),
                  extract_int(proc.stdout, CPU_CYCLES, <<>>))

\* BenchmarkRunner.run_benchmark
run_benchmark(self, program, jit, fast_jit, block_size, optimization_threads, now, proc) ==
    run_benchmark_regular(self, program, jit, fast_jit, block_size, optimization_threads, now, proc)

(***************************************************************************)
(* BenchmarkRunner.run_experiment: the axes, the loop nest, the handler.   *)
(* A position is the index of the current element of every axis.           *)
(***************************************************************************)
\* fast_jit_list = fast_jits if fast_jits else [None]
fast_jit_list(fast_jits) ==
    IF fast_jits # None /\ Len(value(fast_jits)) > 0 THEN value(fast_jits) ELSE <<None>>

\* opt_threads_list = optimization_threads if optimization_threads else [None]
opt_threads_list(optimization_threads) ==
    IF optimization_threads # None /\ Len(value(optimization_threads)) > 0
    THEN [ i \in 1..Len(value(optimization_threads)) |-> Some(value(optimization_threads)[i]) ]
    ELSE <<None>>

axes(a) ==
    [ p |-> a.programs,
      j |-> a.jits,
      f |-> fast_jit_list(a.fast_jits),
      t |-> opt_threads_list(a.optimization_threads),
      b |-> a.block_sizes ]

FirstPosition == [p |-> 1, j |-> 1, f |-> 1, t |-> 1, b |-> 1]

\* The loop nest with the loops exchanged: block_size outermost, program innermost.
advance_block_outermost(ax, at) ==
    IF at.p < Len(ax.p) THEN [at EXCEPT !.p = @ + 1]
    ELSE IF at.j < Len(ax.j) THEN [at EXCEPT !.p = 1, !.j = @ + 1]
    ELSE IF at.f < Len(ax.f) THEN [at EXCEPT !.p = 1, !.j = 1, !.f = @ + 1]
    ELSE IF at.t < Len(ax.t) THEN [at EXCEPT !.p = 1, !.j = 1, !.f = 1, !.t = @ + 1]
    ELSE IF at.b < Len(ax.b) THEN [p |-> 1, j |-> 1, f |-> 1, t |-> 1, b |-> at.b + 1]
    ELSE [p |-> Len(ax.p) + 1, j |-> 1, f |-> 1, t |-> 1, b |-> 1]

\* The five nested for loops: the position after the body has run at `at`.
advance(ax, at) ==
    IF at.b < Len(ax.b) THEN [at EXCEPT !.b = @ + 1]
    ELSE IF at.t < Len(ax.t) THEN [at EXCEPT !.b = 1, !.t = @ + 1]
    ELSE IF at.f < Len(ax.f) THEN [at EXCEPT !.b = 1, !.t = 1, !.f = @ + 1]
    ELSE IF at.j < Len(ax.j) THEN [at EXCEPT !.b = 1, !.t = 1, !.f = 1, !.j = @ + 1]
    ELSE [p |-> at.p + 1, j |-> 1, f |-> 1, t |-> 1, b |-> 1]

\* The loop nest has no body left to run.
exhausted(ax, at) ==
    \/ at.p > Len(ax.p)
    \/ Len(ax.j) = 0
    \/ Len(ax.f) = 0
    \/ Len(ax.t) = 0
    \/ Len(ax.b) = 0

\* The loop variables at a position.
combination(ax, at) ==
    [ program |-> ax.p[at.p],
      jit |-> ax.j[at.j],
      fast_jit |-> ax.f[at.f],
      optimization_threads |-> ax.t[at.t],
      block_size |-> ax.b[at.b] ]

\* A run_experiment without the try/except: nothing is caught.
caught_nothing(raised) == FALSE

\* except subprocess.CalledProcessError
caught(raised) == raised = "CalledProcessError"

\* results.append(result), skipped when run_benchmark raised
append_result(res, cfg, self, out) ==
    IF out.raised = "" THEN Append(res, value(out.result)) ELSE res

(***************************************************************************)
(* BenchmarkResult.to_dict and the result artifact.  A path value is       *)
(* [py, at]: a pathlib.Path or a str holding the text at.  The artifact is *)
(* the sequence of chunks json.dump writes: the opening with the sweep     *)
(* metadata, for every record its fields up to category_breakdown and then *)
(* category_breakdown with the record's end, and the closing.              *)
(***************************************************************************)
\* str(path)
str_path(path) == [py |-> "str", at |-> path.at]

\* Python truthiness of an Optional path field: None and "" are false.
path_truthy(field) ==
    field # None /\ ~(value(field).py = "str" /\ value(field).at = <<>>)

\* asdict(self) alone: the path fields stay as they are.
to_dict_asdict(r) == r

\* BenchmarkResult.to_dict
to_dict(r) ==
    [ r EXCEPT
        !.profiling_report_path =
            IF path_truthy(r.profiling_report_path)
            THEN Some(str_path(value(r.profiling_report_path)))
            ELSE r.profiling_report_path,
        !.stats_json_path =
            IF path_truthy(r.stats_json_path)
            THEN Some(str_path(value(r.stats_json_path)))
            ELSE r.stats_json_path ]

\* [r.to_dict() for r in results]
to_dicts(res) == [ i \in 1..Len(res) |-> to_dict(res[i]) ]

\* the metadata of save_results: 'profile', 'etiss_variant'
single_metadata(self) ==
    [ form |-> "single", profiles |-> <<self.profile>>,
      etiss_variants |-> <<self.etiss_variant>> ]

\* the metadata main writes: 'profiles', 'etiss_variants'
multi_metadata(profiles, etiss_variants) ==
    [ form |-> "multi", profiles |-> profiles, etiss_variants |-> etiss_variants ]

NoMetadata == [form |-> "", profiles |-> <<>>, etiss_variants |-> <<>>]

\* the chunks of one record
record_chunks(d) ==
    << [kind |-> "fields", meta |-> NoMetadata, rec |-> Some(d)],
       [kind |-> "breakdown", meta |-> NoMetadata, rec |-> Some(d)] >>

RECURSIVE records_chunks(_)
records_chunks(ds) ==
    IF Len(ds) = 0 THEN <<>> ELSE record_chunks(Head(ds)) \o records_chunks(Tail(ds))

\* the chunks json.dump(data, f, indent=2) writes for data, in order
document(meta, ds) ==
    << [kind |-> "open", meta |-> meta, rec |-> None] >>
        \o records_chunks(ds)
        \o << [kind |-> "close", meta |-> NoMetadata, rec |-> None] >>

\* The encoder can write the chunk: a category_breakdown that holds a value
\* JSON cannot express makes json.dump raise TypeError when it reaches it.
encodable(chunk) ==
    IF chunk.kind # "breakdown" THEN TRUE
    ELSE IF value(chunk.rec).category_breakdown = None THEN TRUE
    ELSE value(value(chunk.rec).category_breakdown).json

(***************************************************************************)
(* Inputs of the normalization check: names made of up to MaxPieces pieces *)
(* that contain the prefix, parts of it, and other text.                   *)
(***************************************************************************)
VariantPieces ==
    { ETISS_PREFIX, <<"f","o","o">>, <<"e","t">>, <<"i","s","s","_">>, <<"_">> }

RECURSIVE concat(_)
concat(ps) == IF Len(ps) = 0 THEN <<>> ELSE Head(ps) \o concat(Tail(ps))

VariantInputs ==
    { concat(ps) : ps \in UNION { [1..n -> VariantPieces] : n \in 0..MaxPieces } }
        \cup { DEFAULT }

(***************************************************************************)
(* Sweep points used as inputs.                                            *)
(***************************************************************************)
TCC == <<"T","C","C">>
GCC == <<"G","C","C">>
HELLO == <<"h","e","l","l","o","_","w","o","r","l","d">>
DHRY == <<"d","h","r","y">>

ProgramNames == { HELLO, DHRY }
JitKinds == { TCC, GCC }
FastJitKinds == { None, Some(TCC), Some(GCC) }
ThreadCounts == { None, Some(1), Some(2) }
BlockSizes == { 50, 100 }

Configurations ==
    [ program : ProgramNames, jit : JitKinds, fast_jit : FastJitKinds,
      optimization_threads : ThreadCounts, block_size : BlockSizes ]

(***************************************************************************)
(* Inputs of run_benchmark: stats files with any subset of the sections,   *)
(* with one key missing, or with one key only; and standard outputs of up  *)
(* to MaxLines lines.  Every key carries its own value, so that a field    *)
(* read from the wrong key shows.                                          *)
(***************************************************************************)
KeyNumber(section, key) ==
    LET base == CASE section = "metadata" -> 10
                  [] section = "performance" -> 20
                  [] section = "compilation" -> 40
                  [] section = "execution" -> 60
                  [] section = "optimization" -> 70
                  [] section = "cache" -> 80
    IN  base + (CHOOSE i \in 1..Len(SectionKeyList(section)) :
                    SectionKeyList(section)[i] = key)

ValueStyles == {"int", "frac", "whole"}

\* the value a stats file of one style carries under a key: n, n.5 or n.0
KeyValue(section, key, style) ==
    LET n == KeyNumber(section, key)
    IN  CASE style = "int" -> PyInt(n)
          [] style = "frac" -> PyFloat(10 * n + 5, 1)
          [] style = "whole" -> PyFloat(n, 0)

\* a parsed stats file: the sections in secs, without the (section, key) pairs in dropped
Doc(secs, dropped, style) ==
    [ s \in Sections |->
        IF s \in secs
        THEN Some([ k \in SectionKeys(s) |->
                      IF <<s, k>> \in dropped THEN None ELSE Some(KeyValue(s, k, style)) ])
        ELSE None ]

AllPairs == { <<s, k>> : s \in Sections, k \in UNION { SectionKeys(t) : t \in Sections } }
KeyPairs == { p \in AllPairs : p[2] \in SectionKeys(p[1]) }

Docs ==
    UNION { { Doc(secs, {}, style) : secs \in SUBSET Sections }
            \cup { Doc(Sections, {p}, style) : p \in KeyPairs }
            \cup { Doc(Sections, KeyPairs \ {p}, style) : p \in KeyPairs }
          : style \in ValueStyles }

NoDoc == Doc({}, {}, "int")
FullDoc == Doc(Sections, {}, "frac")

Absent == [exists |-> FALSE, valid |-> FALSE, data |-> NoDoc]
Malformed == [exists |-> TRUE, valid |-> FALSE, data |-> NoDoc]
Parsed(doc) == [exists |-> TRUE, valid |-> TRUE, data |-> doc]

StatsFiles == { Absent, Malformed } \cup { Parsed(doc) : doc \in Docs }

NL == <<"\n">>

StdoutLines ==
    { MIPS_ESTIMATED \o <<"1","2",".","5">> \o NL,
      MIPS_CORRECTED \o <<"3">> \o NL,
      SIMULATION_TIME \o <<"1",".","5","s">> \o NL,
      SIMULATION_TIME \o <<"4",".","5">> \o NL,
      WALLCLOCK_TIME \o <<"2","e","1","s">> \o NL,
      CPU_CYCLES \o <<"1","2","3","4",".","9">> \o NL,
      MIPS_ESTIMATED \o <<"-">> \o NL,
      <<"n","o","i","s","e">> \o NL }

Stdouts ==
    { concat(ls) : ls \in UNION { [1..n -> StdoutLines] : n \in 0..MaxLines } }

GoodText == MIPS_ESTIMATED \o <<"1","2",".","5">> \o NL
BadText == MIPS_ESTIMATED \o <<"-">> \o NL

ProcOutcomes ==
    { [returncode |-> rc, stdout |-> s, stats |-> f] :
          rc \in {0, 1}, s \in Stdouts, f \in {Absent, Malformed, Parsed(FullDoc)} }
    \cup
    { [returncode |-> 0, stdout |-> s, stats |-> f] :
          s \in {<<>>, GoodText}, f \in StatsFiles }

BenchConfigurations ==
    { c \in Configurations :
        /\ c.program = HELLO
        /\ c.jit = TCC
        /\ c.block_size = 100
        /\ c.optimization_threads # Some(2)
        /\ c.fast_jit # Some(TCC) }

\* The value of call where run_benchmark is not called.
NoCall ==
    [ cfg |-> CHOOSE c \in BenchConfigurations : TRUE,
      proc |-> [returncode |-> 1, stdout |-> <<>>, stats |-> Absent] ]


(***************************************************************************)
(* Inputs of run_experiment.                                               *)
(***************************************************************************)
ProgramLists == { <<>>, <<HELLO>>, <<HELLO, DHRY>>, <<HELLO, HELLO>> }
JitLists == { <<TCC>>, <<TCC, GCC>> }
FastJitArgs == { None, Some(<<>>), Some(<<None, Some(GCC)>>) }
ThreadArgs == { None, Some(<<>>), Some(<<1, 2>>) }
BlockLists == { <<>>, <<100>>, <<50, 100>> }

\* the number of bodies the loop nest runs
sweep_size(a) ==
    Len(axes(a).p) * Len(axes(a).j) * Len(axes(a).f) * Len(axes(a).t) * Len(axes(a).b)

SweepArgs ==
    { a \in [ programs : ProgramLists, jits : JitLists, block_sizes : BlockLists,
              fast_jits : FastJitArgs, optimization_threads : ThreadArgs,
              rebuild : BOOLEAN ] :
        sweep_size(a) <= MaxCombos }

\* what one run of the collaborator can leave behind in a sweep
SweepOutcomes ==
    { [returncode |-> 1, stdout |-> <<>>, stats |-> Absent],
      [returncode |-> 0, stdout |-> <<>>, stats |-> Parsed(FullDoc)],
      [returncode |-> 0, stdout |-> <<>>, stats |-> Malformed],
      [returncode |-> 0, stdout |-> GoodText, stats |-> Absent] }

NoArgs ==
    [ programs |-> <<>>, jits |-> <<>>, block_sizes |-> <<>>, fast_jits |-> None,
      optimization_threads |-> None, rebuild |-> FALSE ]

\* what the file object's buffer adds to the file
flushed(file, chunks) == Some(value(file) \o chunks)

(***************************************************************************)
(* Inputs of the artifact write: the lists of at most MaxResults records   *)
(* (one read from a stats file, one parsed from the output, one with a     *)
(* profiling report, and those with a category_breakdown JSON can and      *)
(* cannot express), both forms of the    *)
(* metadata, and a destination that does not exist or holds an earlier     *)
(* artifact.                                                               *)
(***************************************************************************)
StructuredRecord ==
    value(run_benchmark(BenchmarkRunner(DEFAULT, DEFAULT, None), HELLO, TCC, None, 100,
                        None, 0,
                        [returncode |-> 0, stdout |-> <<>>, stats |-> Parsed(FullDoc)]).result)

FallbackRecord ==
    value(run_benchmark(BenchmarkRunner(DEFAULT, DEFAULT, None), HELLO, GCC, None, 100,
                        None, 0,
                        [returncode |-> 0, stdout |-> GoodText, stats |-> Absent]).result)

ReportRecord ==
    [ FallbackRecord EXCEPT
        !.profiling_report_path = Some([py |-> "Path", at |-> <<"r", ".", "t", "x", "t">>]) ]

SaveRecords ==
    { StructuredRecord,
      FallbackRecord,
      ReportRecord,
      [FallbackRecord EXCEPT !.category_breakdown = Some([json |-> TRUE])],
      [FallbackRecord EXCEPT !.category_breakdown = Some([json |-> FALSE])] }

SaveLists == UNION { [1..n -> SaveRecords] : n \in 0..MaxResults }

SaveArgs ==
    { [form |-> "single", profiles |-> <<>>, etiss_variants |-> <<>>, results |-> rs] :
        rs \in SaveLists }
    \cup
    { [form |-> "multi", profiles |-> <<DEFAULT>>, etiss_variants |-> vs, results |-> rs] :
        vs \in { <<DEFAULT>>, <<DEFAULT, ETISS_PREFIX \o <<"x">> >> }, rs \in SaveLists }

NoSaveArgs == [form |-> "", profiles |-> <<>>, etiss_variants |-> <<>>, results |-> <<>>]

Destinations ==
    { None, Some(document(single_metadata(BenchmarkRunner(DEFAULT, DEFAULT, None)), <<>>)) }

(***************************************************************************)
(* The parts of the state a specification does not use stay as they are    *)
(* here.                                                                   *)
(***************************************************************************)
runnerVars == <<runner, given>>
nameVars == <<issued>>
benchVars == <<call, ret>>
sweepVars == <<pc, args, next_build, pos, events, results, log, exc>>
saveVars == <<saving, sargs, artifact, written, buffer, dest, before>>

DefaultRunner ==
    /\ given = DEFAULT
    /\ runner = BenchmarkRunner(DEFAULT, DEFAULT, None)

NoNames == issued = <<>>

NoBenchmark ==
    /\ call = NoCall
    /\ ret = None

NoSweep ==
    /\ pc = "idle"
    /\ args = NoArgs
    /\ next_build = 1
    /\ pos = FirstPosition
    /\ events = <<>>
    /\ results = <<>>
    /\ log = <<>>
    /\ exc = ""

NoSave ==
    /\ saving = "idle"
    /\ sargs = NoSaveArgs
    /\ artifact = <<>>
    /\ written = 0
    /\ buffer = <<>>
    /\ dest = None
    /\ before = None

\* Time passes.
Tick ==
    /\ clock < MaxClock
    /\ clock' = clock + 1
    /\ UNCHANGED <<runnerVars, nameVars, benchVars, sweepVars, saveVars>>

(***************************************************************************)
(* Specification of the variant normalization (BenchmarkRunner.__init__).  *)
(***************************************************************************)
InitNorm ==
    /\ DefaultRunner
    /\ clock = 0
    /\ NoNames
    /\ NoBenchmark
    /\ NoSweep
    /\ NoSave

\* runner = BenchmarkRunner(profile, etiss_variant)
Construct ==
    \E v \in VariantInputs :
        /\ given' = v
        /\ runner' = BenchmarkRunner(DEFAULT, v, None)
        /\ UNCHANGED <<clock, nameVars, benchVars, sweepVars, saveVars>>

NextNorm == Construct

SpecNorm == InitNorm /\ [][NextNorm]_vars

\* C6: the stored variant is the input prefixed unless already prefixed,
\* normalizing the stored value again changes nothing, and normalizing the
\* cached display form gives back the stored canonical value.
C6_NormalizationConsistent ==
    /\ runner.etiss_variant =
          (IF startswith(given, ETISS_PREFIX) THEN given ELSE ETISS_PREFIX \o given)
    /\ canonical_variant(runner.etiss_variant) = runner.etiss_variant
    /\ canonical_variant(runner.etiss_variant_name) = runner.etiss_variant

(***************************************************************************)
(* Specification of the stats file names.                                  *)
(***************************************************************************)
InitName ==
    /\ DefaultRunner
    /\ clock = 0
    /\ NoNames
    /\ NoBenchmark
    /\ NoSweep
    /\ NoSave

\* One call of generate_stats_filename, as _run_benchmark_regular makes it.
GenerateName ==
    /\ Len(issued) < MaxIssued
    /\ \E c \in Configurations :
           issued' = Append(issued,
               [ cfg  |-> c,
                 at   |-> clock,
                 name |-> generate_stats_filename(runner, c.program, c.jit, c.fast_jit,
                              c.optimization_threads, c.block_size, clock) ])
    /\ UNCHANGED <<runnerVars, clock, benchVars, sweepVars, saveVars>>

NextName == Tick \/ GenerateName

SpecName == InitName /\ [][NextName]_vars

\* C7: two calls of one runner receive the same file name only if they have
\* identical configuration parameters and fall in the same second.
C7_UniqueNames ==
    \A i, j \in 1..Len(issued) :
        (i # j /\ issued[i].name = issued[j].name)
            => (issued[i].cfg = issued[j].cfg /\ issued[i].at = issued[j].at)

(***************************************************************************)
(* Specification of run_benchmark.                                         *)
(***************************************************************************)
InitBench ==
    /\ DefaultRunner
    /\ clock = 0
    /\ NoNames
    /\ call \in [cfg : BenchConfigurations, proc : ProcOutcomes]
    /\ ret = None
    /\ NoSweep
    /\ NoSave

\* The call of run_benchmark: the collaborator has run and left call.proc behind.
RunBenchmark ==
    /\ ret = None
    /\ ret' = Some(run_benchmark(runner, call.cfg.program, call.cfg.jit, call.cfg.fast_jit,
                       call.cfg.block_size, call.cfg.optimization_threads, clock, call.proc))
    /\ UNCHANGED <<runnerVars, clock, nameVars, call, sweepVars, saveVars>>

NextBench == RunBenchmark

SpecBench == InitBench /\ [][NextBench]_vars

(***************************************************************************)
(* Properties of run_benchmark.                                            *)
(***************************************************************************)
\* The numeric fields of BenchmarkResult with the section and key of the
\* stats file each is documented to come from.
FieldSource ==
    [ mips_estimated |-> <<"performance", "mips_estimated">>,
      mips_corrected |-> <<"performance", "mips_corrected">>,
      sim_time |-> <<"performance", "simulation_time_s">>,
      wall_time |-> <<"performance", "wall_time_s">>,
      cpu_cycles |-> <<"performance", "cpu_cycles">>,
      cpu_time_simulated |-> <<"performance", "cpu_time_s">>,
      unique_blocks_compiled |-> <<"compilation", "unique_blocks">>,
      fast_jit_blocks |-> <<"compilation", "fast_jit_blocks">>,
      optimizing_jit_blocks |-> <<"compilation", "optimizing_jit_blocks">>,
      total_compilation_time_s |-> <<"compilation", "total_time_s">>,
      fast_jit_compilation_time_s |-> <<"compilation", "fast_jit_time_s">>,
      optimizing_jit_compilation_time_s |-> <<"compilation", "optimizing_jit_time_s">>,
      avg_fast_jit_time_ms |-> <<"compilation", "avg_fast_jit_time_ms">>,
      avg_opt_jit_time_ms |-> <<"compilation", "avg_optimizing_jit_time_ms">>,
      fast_jit_speedup |-> <<"compilation", "fast_jit_speedup">>,
      compilation_percentage |-> <<"compilation", "compilation_percentage">>,
      execution_percentage |-> <<"compilation", "execution_percentage">>,
      total_block_executions |-> <<"execution", "total_block_executions">>,
      fast_jit_executions |-> <<"execution", "fast_jit_executions">>,
      optimized_executions |-> <<"execution", "optimized_executions">>,
      fast_jit_exec_percentage |-> <<"execution", "fast_jit_exec_percentage">>,
      optimized_exec_percentage |-> <<"execution", "optimized_exec_percentage">>,
      block_execution_time_ms |-> <<"execution", "block_execution_time_ms">>,
      blocks_optimized |-> <<"optimization", "blocks_optimized">>,
      blocks_switched |-> <<"optimization", "blocks_switched">>,
      optimization_success_rate |-> <<"optimization", "optimization_success_rate">>,
      switch_rate |-> <<"optimization", "switch_rate">>,
      avg_executions_before_switch |-> <<"optimization", "avg_executions_before_switch">>,
      total_cache_lookups |-> <<"cache", "total_lookups">>,
      cache_sequential_hits |-> <<"cache", "sequential_hits">>,
      cache_branch_hits |-> <<"cache", "branch_hits">>,
      cache_misses |-> <<"cache", "misses">>,
      cache_hit_rate |-> <<"cache", "hit_rate">>,
      cache_miss_rate |-> <<"cache", "miss_rate">> ]

NumericFields == DOMAIN FieldSource

\* The fields the fallback path reads from standard output, with label and suffix.
FieldPattern ==
    [ mips_estimated |-> <<MIPS_ESTIMATED, <<>> >>,
      mips_corrected |-> <<MIPS_CORRECTED, <<>> >>,
      sim_time |-> <<SIMULATION_TIME, <<"s">> >>,
      wall_time |-> <<WALLCLOCK_TIME, <<"s">> >>,
      cpu_cycles |-> <<CPU_CYCLES, <<>> >> ]

\* the key a field comes from is absent from a parsed stats file
KeyAbsent(data, f) ==
    \/ data[FieldSource[f][1]] = None
    \/ value(data[FieldSource[f][1]])[FieldSource[f][2]] = None

\* the pattern of a field does not occur in a standard output
PatternAbsent(output, f) ==
    \/ f \notin DOMAIN FieldPattern
    \/ re_search(FieldPattern[f][1], FieldPattern[f][2], output) = None

Returned == ret # None /\ value(ret).result # None
TheResult == value(value(ret).result)

\* C8: every BenchmarkResult run_benchmark returns has a number in each
\* numeric field, and a field whose key (structured path) or pattern
\* (fallback path) is absent holds zero.
C8_FullyPopulated ==
    Returned =>
        /\ \A f \in NumericFields : IsNumber(TheResult[f])
        /\ \A f \in NumericFields :
              (IF call.proc.stats.exists
               THEN KeyAbsent(call.proc.stats.data, f)
               ELSE PatternAbsent(call.proc.stdout, f))
                  => IsZero(TheResult[f])

\* A result was extracted from a stats file whose cache section is empty.
C8_Witness ==
    /\ Returned
    /\ call.proc.stats.exists
    /\ call.proc.stats.data["cache"] # None
    /\ \A k \in SectionKeys("cache") : value(call.proc.stats.data["cache"])[k] = None
    /\ TheResult.cache_hit_rate = PyFloat(0, 0)
    /\ TheResult.mips_estimated # PyFloat(0, 0)

\* C9: after a successful run, an absent stats file or one with sections or
\* keys absent gives a result and no exception; a stats file that is not
\* valid JSON gives an exception and no result.
C9_MissingVersusMalformed ==
    (ret # None /\ call.proc.returncode = 0) =>
        /\ (~call.proc.stats.exists \/ call.proc.stats.valid)
              => (value(ret).raised = "" /\ value(ret).result # None)
        /\ (call.proc.stats.exists /\ ~call.proc.stats.valid)
              => (value(ret).raised # "" /\ value(ret).result = None)

(***************************************************************************)
(* Specification of run_experiment.  Init is the call: the arguments are   *)
(* drawn, and control stands at the rebuild loop or at the loop nest.      *)
(* events lists the collaborators invoked, in order: for a build the       *)
(* program, for a run the position and loop variables, and for both the    *)
(* exception the invocation ended with ("" for none).                      *)
(***************************************************************************)
InitSweep ==
    /\ DefaultRunner
    /\ clock = 0
    /\ NoNames
    /\ NoBenchmark
    /\ args \in SweepArgs
    /\ pc = IF args.rebuild /\ Len(args.programs) > 0 THEN "build" ELSE "sweep"
    /\ next_build = 1
    /\ pos = FirstPosition
    /\ events = <<>>
    /\ results = <<>>
    /\ log = <<>>
    /\ exc = ""
    /\ NoSave

NoCombination == combination(axes([NoArgs EXCEPT !.programs = <<HELLO>>, !.jits = <<TCC>>,
                                                 !.block_sizes = <<100>>]), FirstPosition)

\* if rebuild: for program in programs: self.build_program(program, clean=True)
\* One iteration; a build that exits non-zero raises out of run_experiment.
BuildProgram ==
    /\ pc = "build"
    /\ \E status \in {0, 1} :
          /\ events' = Append(events,
                 [ kind |-> "build", program |-> args.programs[next_build],
                   at |-> FirstPosition, cfg |-> NoCombination,
                   raised |-> IF status = 0 THEN "" ELSE "CalledProcessError" ])
          /\ IF status # 0
             THEN /\ pc' = "raised"
                  /\ exc' = "CalledProcessError"
                  /\ UNCHANGED next_build
             ELSE /\ next_build' = next_build + 1
                  /\ pc' = IF next_build = Len(args.programs) THEN "sweep" ELSE "build"
                  /\ UNCHANGED exc
    /\ UNCHANGED <<saveVars, runnerVars, clock, nameVars, benchVars, args, pos, results, log>>

\* The rest of a body of the loop nest once run_benchmark has ended with out:
\* the append, or the except clause, or the exception leaving run_experiment.
Handle(cfg, out) ==
    /\ events' = Append(events,
           [ kind |-> "run", program |-> cfg.program, at |-> pos, cfg |-> cfg,
             raised |-> out.raised ])
    /\ results' = append_result(results, cfg, runner, out)
    /\ IF out.raised = "" \/ caught(out.raised)
       THEN /\ log' = IF out.raised = "" THEN log
                      ELSE Append(log, [at |-> pos, cfg |-> cfg, error |-> out.raised])
            /\ pos' = advance(axes(args), pos)
            /\ UNCHANGED <<pc, exc>>
       ELSE /\ pc' = "raised"
            /\ exc' = out.raised
            /\ UNCHANGED <<log, pos>>

Try(cfg, proc) ==
    Handle(cfg, run_benchmark(runner, cfg.program, cfg.jit, cfg.fast_jit, cfg.block_size,
                              cfg.optimization_threads, clock, proc))

\* One body of the loop nest: run_benchmark in its try/except.
RunCombination ==
    /\ pc = "sweep"
    /\ ~exhausted(axes(args), pos)
    /\ \E proc \in SweepOutcomes : Try(combination(axes(args), pos), proc)
    /\ UNCHANGED <<saveVars, runnerVars, clock, nameVars, benchVars, args, next_build>>

\* return results
Return ==
    /\ pc = "sweep"
    /\ exhausted(axes(args), pos)
    /\ pc' = "returned"
    /\ UNCHANGED <<saveVars, runnerVars, clock, nameVars, benchVars, args, next_build, pos, events,
                   results, log, exc>>

Next == BuildProgram \/ RunCombination \/ Return \/ Tick

Spec == InitSweep /\ [][Next]_vars

(***************************************************************************)
(* Properties of run_experiment.                                           *)
(***************************************************************************)
RunEvents == SelectSeq(events, LAMBDA e : e.kind = "run")
BuildEvents == SelectSeq(events, LAMBDA e : e.kind = "build")
Successful == SelectSeq(events, LAMBDA e : e.kind = "run" /\ e.raised = "")

\* The axes as the sweep contract states them: an absent or empty fast_jits or
\* optimization_threads axis counts as the one-element axis [unset].
AxisSize(axis) == IF axis = None \/ Len(value(axis)) = 0 THEN 1 ELSE Len(value(axis))

CrossProductSize(a) ==
    Len(a.programs) * Len(a.jits) * AxisSize(a.fast_jits)
        * AxisSize(a.optimization_threads) * Len(a.block_sizes)

Positions(a) ==
    [ p : 1..Len(a.programs), j : 1..Len(a.jits), f : 1..AxisSize(a.fast_jits),
      t : 1..AxisSize(a.optimization_threads), b : 1..Len(a.block_sizes) ]

\* lexicographic order of (program, jit, fast_jit, optimization_threads, block_size)
LexLess(x, y) ==
    \/ x.p < y.p
    \/ x.p = y.p /\ x.j < y.j
    \/ x.p = y.p /\ x.j = y.j /\ x.f < y.f
    \/ x.p = y.p /\ x.j = y.j /\ x.f = y.f /\ x.t < y.t
    \/ x.p = y.p /\ x.j = y.j /\ x.f = y.f /\ x.t = y.t /\ x.b < y.b

\* the combinations after x in iteration order
After(a, x) == { y \in Positions(a) : LexLess(x, y) }

\* y is the combination next after x in iteration order
IsNextAfter(a, x, y) == y \in After(a, x) /\ \A z \in After(a, x) : ~LexLess(z, y)

\* the sweep point at position x, read off the arguments
PointAt(a, x) ==
    [ program |-> a.programs[x.p],
      jit |-> a.jits[x.j],
      fast_jit |-> IF a.fast_jits = None \/ Len(value(a.fast_jits)) = 0 THEN None
                   ELSE value(a.fast_jits)[x.f],
      optimization_threads |->
          IF a.optimization_threads = None \/ Len(value(a.optimization_threads)) = 0
          THEN None
          ELSE Some(value(a.optimization_threads)[x.t]),
      block_size |-> a.block_sizes[x.b] ]

PointOf(r) ==
    [ program |-> r.program, jit |-> r.jit, fast_jit |-> r.fast_jit,
      optimization_threads |-> r.optimization_threads, block_size |-> r.block_size ]

BuildFailed == \E i \in 1..Len(events) : events[i].kind = "build" /\ events[i].raised # ""

\* C1: when a combination fails in either step (the run exits non-zero, or
\* the extraction raises), the failure is logged and the sweep goes on:
\* run_experiment is not left by the exception, and it returns only after
\* every combination of the cross product was attempted.
C1_FailureIsolated ==
    /\ \A i \in 1..Len(events) :
          (events[i].kind = "run" /\ events[i].raised # "")
              => /\ \E k \in 1..Len(log) : log[k].at = events[i].at
                 /\ pc # "raised"
    /\ pc = "returned" => Len(RunEvents) = CrossProductSize(args)

\* C2: a combination whose run exits non-zero is invoked exactly once, adds
\* no entry to results, is logged once, and the combination next in
\* iteration order is the next one run; run_experiment does not end before.
C2_RunFailureSkipped ==
    \A i \in 1..Len(events) :
        (events[i].kind = "run" /\ events[i].raised = "CalledProcessError")
            => /\ Cardinality({ j \in 1..Len(events) :
                       events[j].kind = "run" /\ events[j].at = events[i].at }) = 1
               /\ Len(results) = Len(Successful)
               /\ Cardinality({ k \in 1..Len(log) : log[k].at = events[i].at }) = 1
               /\ IF i < Len(events)
                  THEN /\ events[i + 1].kind = "run"
                       /\ IsNextAfter(args, events[i].at, events[i + 1].at)
                  ELSE \/ pc = "sweep" /\ IsNextAfter(args, events[i].at, pos)
                       \/ pc \in {"sweep", "returned"} /\ After(args, events[i].at) = {}

\* A run failed, the next combination was run after it and succeeded, and
\* run_experiment returned.
C2_Witness ==
    /\ pc = "returned"
    /\ \E i \in 1..Len(events) :
          /\ i < Len(events)
          /\ events[i].kind = "run"
          /\ events[i].raised = "CalledProcessError"
          /\ events[i + 1].raised = ""
    /\ Len(results) >= 1
    /\ Len(results) < Len(RunEvents)

\* C3: when run_experiment has ended (the rebuild aside), it has attempted
\* exactly |P|x|J|x|F|x|T|x|B| combinations, and the returned results plus
\* the logged failures are as many as the attempted combinations.
C3_SweepSizeLaw ==
    (pc \in {"returned", "raised"} /\ ~BuildFailed)
        => /\ Len(RunEvents) = CrossProductSize(args)
           /\ Len(results) + Len(log) = Len(RunEvents)

\* C4: the k-th combination invoked is the k-th of the cross product in
\* lexicographic order of the positions (program outermost, block_size
\* innermost), with the values the axis lists hold there; results holds
\* the successful combinations, in that order; and a run_experiment that
\* returns has invoked them all.
C4_LexicographicOrder ==
    /\ \A k \in 1..Len(RunEvents) :
          /\ RunEvents[k].at \in Positions(args)
          /\ Cardinality({ q \in Positions(args) : LexLess(q, RunEvents[k].at) }) = k - 1
          /\ RunEvents[k].cfg = PointAt(args, RunEvents[k].at)
    /\ Len(results) = Len(Successful)
    /\ \A i \in 1..Len(results) :
          i <= Len(Successful) => PointOf(results[i]) = Successful[i].cfg
    /\ pc = "returned" => Len(RunEvents) = Cardinality(Positions(args))

\* The sweep programs=[hello_world], jits=[TCC], block_sizes=[50, 100] without
\* fast_jits has returned after two attempts, block 50 before block 100.
C4_Witness ==
    /\ pc = "returned"
    /\ args.programs = <<HELLO>>
    /\ args.jits = <<TCC>>
    /\ args.block_sizes = <<50, 100>>
    /\ args.fast_jits = None
    /\ Len(RunEvents) = 2
    /\ RunEvents[1].cfg.block_size = 50
    /\ RunEvents[2].cfg.block_size = 100
    /\ Len(results) = 2
    /\ results[1].block_size = 50

\* C5: with rebuild, once the rebuild loop is through every program of the
\* programs axis has been built exactly once, and a program's build comes
\* before every run of it; without rebuild nothing is built.
C5_RebuildOnce ==
    /\ ~args.rebuild => Len(BuildEvents) = 0
    /\ (args.rebuild /\ pc \in {"sweep", "returned"})
          => \A n \in 1..Len(args.programs) :
                Cardinality({ i \in 1..Len(events) :
                    events[i].kind = "build" /\ events[i].program = args.programs[n] }) = 1
    /\ \A i, j \in 1..Len(events) :
          (events[i].kind = "run" /\ events[j].kind = "build"
              /\ events[j].program = events[i].program) => j < i

(***************************************************************************)
(* Specification of the artifact write: save_results, and the write of     *)
(* main for several configurations.  The steps are the statements of the   *)
(* method and what the file object does between them: data is built, the   *)
(* destination is opened for writing (which empties it), json.dump writes  *)
(* the chunks into the file object, whose buffer reaches the file when it  *)
(* fills and when the with block is left.                                  *)
(***************************************************************************)
InitSave ==
    /\ DefaultRunner
    /\ clock = 0
    /\ NoNames
    /\ NoBenchmark
    /\ NoSweep
    /\ saving = "called"
    /\ sargs \in SaveArgs
    /\ artifact = <<>>
    /\ written = 0
    /\ buffer = <<>>
    /\ before \in Destinations
    /\ dest = before

\* data = {..., 'results': [r.to_dict() for r in results]}
BuildData ==
    /\ saving = "called"
    /\ artifact' = document(IF sargs.form = "single"
                            THEN single_metadata(runner)
                            ELSE multi_metadata(sargs.profiles, sargs.etiss_variants),
                            to_dicts(sargs.results))
    /\ saving' = "built"
    /\ UNCHANGED <<runnerVars, clock, nameVars, benchVars, sweepVars,
                   sargs, written, buffer, dest, before>>

\* open(output_file, 'w')
Open ==
    /\ saving = "built"
    /\ dest' = Some(<<>>)
    /\ saving' = "open"
    /\ UNCHANGED <<runnerVars, clock, nameVars, benchVars, sweepVars,
                   sargs, artifact, written, buffer, before>>

\* json.dump: fp.write(chunk) for the next chunk
WriteChunk ==
    /\ saving = "open"
    /\ written < Len(artifact)
    /\ encodable(artifact[written + 1])
    /\ buffer' = Append(buffer, artifact[written + 1])
    /\ written' = written + 1
    /\ UNCHANGED <<runnerVars, clock, nameVars, benchVars, sweepVars,
                   saving, sargs, artifact, dest, before>>

\* the file object empties its buffer into the file
Flush ==
    /\ saving = "open"
    /\ buffer # <<>>
    /\ dest' = flushed(dest, buffer)
    /\ buffer' = <<>>
    /\ UNCHANGED <<runnerVars, clock, nameVars, benchVars, sweepVars,
                   saving, sargs, artifact, written, before>>

\* json.dump raises TypeError at the next chunk; the with block closes the file
RaiseTypeError ==
    /\ saving = "open"
    /\ written < Len(artifact)
    /\ ~encodable(artifact[written + 1])
    /\ dest' = flushed(dest, buffer)
    /\ buffer' = <<>>
    /\ saving' = "raised"
    /\ UNCHANGED <<runnerVars, clock, nameVars, benchVars, sweepVars,
                   sargs, artifact, written, before>>

\* json.dump returns; the with block closes the file
Close ==
    /\ saving = "open"
    /\ written = Len(artifact)
    /\ dest' = flushed(dest, buffer)
    /\ buffer' = <<>>
    /\ saving' = "saved"
    /\ UNCHANGED <<runnerVars, clock, nameVars, benchVars, sweepVars,
                   sargs, artifact, written, before>>

NextSave == BuildData \/ Open \/ WriteChunk \/ Flush \/ RaiseTypeError \/ Close

SpecSave == InitSave /\ [][NextSave]_vars

\* C10: while and after the artifact is written, also when json.dump raises
\* part-way, the destination holds either what it held before the write or
\* the complete new document, never a part of it.
C10_AtomicWrite ==
    saving \in {"built", "open", "saved", "raised"}
        => (dest = before \/ dest = Some(artifact))

(***************************************************************************)
(* Properties of the saved artifact.                                       *)
(***************************************************************************)
\* the result records of a document, in its order
ArtifactRecords(doc) ==
    [ i \in 1..Len(SelectSeq(doc, LAMBDA c : c.kind = "fields")) |->
        value(SelectSeq(doc, LAMBDA c : c.kind = "fields")[i].rec) ]

\* a path field of the artifact is null or a string
IsTextOrNull(field) == field = None \/ value(field).py = "str"

\* the field of the artifact is the textual form of the field of the result
IsTextOf(field, original) ==
    IF original = None THEN field = None
    ELSE field # None /\ value(field).at = value(original).at

WithoutPaths(r) == [r EXCEPT !.profiling_report_path = None, !.stats_json_path = None]

\* C11: in the document that is saved, the i-th record is the i-th result of
\* the sequence, and its stats_json_path and profiling_report_path are each
\* null or the string form of the path, never a path object, whichever
\* extraction path produced the result; the saved file holds that document.
C11_PathsAreText ==
    saving \in {"built", "open", "saved", "raised"}
        => /\ Len(ArtifactRecords(artifact)) = Len(sargs.results)
           /\ \A i \in 1..Len(sargs.results) :
                 /\ IsTextOrNull(ArtifactRecords(artifact)[i].stats_json_path)
                 /\ IsTextOrNull(ArtifactRecords(artifact)[i].profiling_report_path)
                 /\ IsTextOf(ArtifactRecords(artifact)[i].stats_json_path,
                             sargs.results[i].stats_json_path)
                 /\ IsTextOf(ArtifactRecords(artifact)[i].profiling_report_path,
                             sargs.results[i].profiling_report_path)
                 /\ WithoutPaths(ArtifactRecords(artifact)[i]) = WithoutPaths(sargs.results[i])
           /\ saving = "saved" => dest = Some(artifact)

\* A result read from a stats file (its stats_json_path a path object) and
\* then one parsed from the output with a profiling report were saved, and
\* the file holds them in that order with the paths as strings.
C11_Witness ==
    /\ saving = "saved"
    /\ sargs.results = <<StructuredRecord, ReportRecord>>
    /\ value(StructuredRecord.stats_json_path).py = "Path"
    /\ Len(ArtifactRecords(value(dest))) = 2
    /\ value(ArtifactRecords(value(dest))[1].stats_json_path).py = "str"
    /\ ArtifactRecords(value(dest))[2].stats_json_path = None
    /\ value(ArtifactRecords(value(dest))[2].profiling_report_path).py = "str"

(***************************************************************************)
(* Properties of the two extraction paths of run_benchmark.                *)
(***************************************************************************)
\* the fields BenchmarkResult declares as int
IntegerFields ==
    { "cpu_cycles", "unique_blocks_compiled", "fast_jit_blocks", "optimizing_jit_blocks",
      "blocks_optimized", "blocks_switched", "total_block_executions",
      "fast_jit_executions", "optimized_executions", "avg_executions_before_switch",
      "total_cache_lookups", "cache_sequential_hits", "cache_branch_hits", "cache_misses" }

\* the default BenchmarkResult declares for a numeric field
FieldDefault(f) == IF f \in IntegerFields THEN PyInt(0) ELSE PyFloat(0, 0)

\* the number a stats file carries under the key of field f
KeyOf(data, f) == value(value(data[FieldSource[f][1]])[FieldSource[f][2]])

\* the number standard output carries after the label of field f
TextOf(output, f) ==
    float(value(re_search(FieldPattern[f][1], FieldPattern[f][2], output))).v

\* the result of the same call had the run printed nothing
WithSilentRun ==
    run_benchmark(runner, call.cfg.program, call.cfg.jit, call.cfg.fast_jit,
                  call.cfg.block_size, call.cfg.optimization_threads, clock,
                  [call.proc EXCEPT !.stdout = <<>>])

\* C12: a result that run_benchmark returns comes from the stats file exactly
\* when a file exists at the output path, and then it is what it would be
\* with an empty standard output; when the file is absent the result has no
\* stats path, each of the five labeled metrics is the number after its label
\* (zero when the pattern does not match), and every other metric is at its
\* default.
C12_ExtractionPriority ==
    Returned =>
        IF call.proc.stats.exists
        THEN /\ TheResult.stats_json_path # None
             /\ value(ret) = WithSilentRun
             /\ \A f \in NumericFields :
                   ~KeyAbsent(call.proc.stats.data, f)
                       => TheResult[f] \in { KeyOf(call.proc.stats.data, f),
                                             int(KeyOf(call.proc.stats.data, f)) }
        ELSE /\ TheResult.stats_json_path = None
             /\ TheResult.profiling_report_path = None
             /\ TheResult.category_breakdown = None
             /\ \A f \in DOMAIN FieldPattern :
                   IF PatternAbsent(call.proc.stdout, f)
                   THEN TheResult[f] = FieldDefault(f)
                   ELSE TheResult[f] = IF f \in IntegerFields
                                       THEN int(TextOf(call.proc.stdout, f))
                                       ELSE TextOf(call.proc.stdout, f)
             /\ \A f \in NumericFields \ DOMAIN FieldPattern :
                   TheResult[f] = FieldDefault(f)

\* Both paths: the run printed "MIPS (estimated): 12.5" and left no stats
\* file, and the result holds 12.5 and zero for the corrected MIPS.
C12_Witness ==
    /\ Returned
    /\ ~call.proc.stats.exists
    /\ call.proc.stdout = GoodText
    /\ TheResult.mips_estimated = PyFloat(125, 1)
    /\ TheResult.mips_corrected = PyFloat(0, 0)
    /\ TheResult.cpu_cycles = PyInt(0)
    /\ TheResult.unique_blocks_compiled = PyInt(0)

\* C13: on the structured path every field declared int holds an integer,
\* the number of the stats file truncated by int() when the file carries it
\* as a float, and every float-valued field holds the number of the stats
\* file unchanged.
C13_IntegerFieldsTruncated ==
    (Returned /\ call.proc.stats.exists) =>
        \A f \in NumericFields :
            ~KeyAbsent(call.proc.stats.data, f)
                => IF f \in IntegerFields
                   THEN /\ TheResult[f].ty = "int"
                        /\ TheResult[f] = int(KeyOf(call.proc.stats.data, f))
                   ELSE TheResult[f] = KeyOf(call.proc.stats.data, f)

====
